---- MODULE Spec2Model ----
(***************************************************************************)
(* ai-mouse-check: the server-side movement classifier (analyzeMovement),  *)
(* the verification server's request handlers (POST /api/verify,           *)
(* POST /api/verify-signature, GET /api/health) and the in-memory session  *)
(* registry (verifiedSessions).                                            *)
(*                                                                         *)
(* Conventions.                                                            *)
(*  - A JavaScript value that may be undefined is a set: None is           *)
(*    undefined, Some(v) is the value v.                                   *)
(*  - Coordinates and timestamps are integers.  The floating-point         *)
(*    comparisons of the source are modelled by the equivalent exact       *)
(*    integer comparisons (both sides multiplied out).  Step lengths of    *)
(*    the modelled paths are integers, so Math.sqrt is exact on them.      *)
(*  - The 18-signal anti-Bezier suite is floating-point numerics through   *)
(*    and through (atan2, log2, regressions); its verdict isBezierLike is  *)
(*    an input of the model that takes both values.                        *)
(***************************************************************************)
EXTENDS Integers, Sequences, FiniteSets, TLC

VARIABLES
    phase,             \* analysis harness: "ready" (inputs drawn) or "done"
    points,            \* analysis harness: the points argument (None or Some(seq))
    options,           \* analysis harness: [targetHitsRequired, targetHits]
    bezierLike,        \* analysis harness: verdict of the anti-Bezier suite
    result,            \* analysis harness: None or Some(returned object)
    verifiedSessions,  \* server: the Map, as its entries in insertion order
    now,               \* server: the wall clock, Date.now()
    req,               \* server: the request served last
    resp,              \* server: the response sent last
    issued,            \* history: every session ever stored
    nreq,              \* history: number of requests served
    nticks,            \* history: number of clock advances between requests
    sign,              \* signing harness: None or Some([inputs and outcome])
    inflight,          \* event loop: the handler calls that have begun and not returned
    client             \* browser: the state of one AIMouseCheck and its timers

vars == <<phase, points, options, bezierLike, result,
          verifiedSessions, now, req, resp, issued, nreq, nticks,
          sign, inflight, client>>

analysisVars == <<phase, points, options, bezierLike, result>>
serverVars == <<verifiedSessions, now, req, resp, issued, nreq, nticks>>
otherVars == <<sign, inflight, client>>

-----------------------------------------------------------------------------
(* JavaScript values                                                       *)

None == {}
Some(v) == {v}
Get(o) == CHOOSE member \in o : TRUE

\* a || d on a number: undefined and 0 are falsy
OrDefault(o, d) == IF o = None \/ o = Some(0) THEN d ELSE Get(o)

\* a || d on a string: undefined and "" are falsy
OrDefaultStr(o, d) == IF o = None \/ o = Some("") THEN d ELSE Get(o)

Abs(a) == IF a < 0 THEN 0 - a ELSE a
Max2(a, b) == IF a > b THEN a ELSE b

RECURSIVE Gcd(_, _)
Gcd(a, b) == IF b = 0 THEN a ELSE Gcd(b, a % b)

Lcm(a, b) == (a \div Gcd(a, b)) * b

RECURSIVE SeqSum(_)
SeqSum(s) == IF s = <<>> THEN 0 ELSE Head(s) + SeqSum(Tail(s))

RECURSIVE SeqMax(_)
SeqMax(s) == IF Len(s) = 1 THEN s[1] ELSE Max2(s[1], SeqMax(Tail(s)))

RECURSIVE SeqMin(_)
SeqMin(s) == IF Len(s) = 1 THEN s[1]
             ELSE LET m == SeqMin(Tail(s)) IN IF s[1] < m THEN s[1] ELSE m

RECURSIVE SumRange(_, _, _)
SumRange(f, lo, hi) ==
    IF lo > hi THEN 0
    ELSE IF lo = hi THEN f[lo]
    ELSE LET mid == (lo + hi) \div 2
         IN  SumRange(f, lo, mid) + SumRange(f, mid + 1, hi)

\* number of true values of a sequence of booleans: arr.filter(Boolean).length
CountTrue(s) == Cardinality({i \in 1..Len(s) : s[i]})

\* Math.floor(Math.sqrt(n)) for n >= 0
FloorSqrt(n) == CHOOSE r \in 0..n : r * r <= n /\ (r + 1) * (r + 1) > n

-----------------------------------------------------------------------------
(* analyzeMovement: the six primary checks.  pts is the points array,      *)
(* pts[i] the JavaScript points[i - 1].                                    *)

MinPoints == 15
segmentSize == 20
segmentStride == 10
DefaultTargetHitsRequired == 5
TotalChecks == 7

Dx(pts, i) == pts[i].x - pts[i - 1].x
Dy(pts, i) == pts[i].y - pts[i - 1].y
Dt(pts, i) == pts[i].t - pts[i - 1].t

\* Math.sqrt(dx * dx + dy * dy); the modelled steps have integer length
Dist(dx, dy) == FloorSqrt(dx * dx + dy * dy)

RECURSIVE GapLcmR(_, _)
GapLcmR(pts, i) ==
    IF i < 2 THEN 1
    ELSE IF Dt(pts, i) > 0 THEN Lcm(GapLcmR(pts, i - 1), Dt(pts, i))
    ELSE GapLcmR(pts, i - 1)
GapLcm(pts) == GapLcmR(pts, Len(pts))

RECURSIVE SpeedsR(_, _, _)
SpeedsR(pts, i, k) ==
    IF i < 2 THEN <<>>
    ELSE IF Dt(pts, i) > 0 /\ Dist(Dx(pts, i), Dy(pts, i)) > 0
         THEN Append(SpeedsR(pts, i - 1, k),
                     (Dist(Dx(pts, i), Dy(pts, i)) * k) \div Dt(pts, i))
         ELSE SpeedsR(pts, i - 1, k)
Speeds(pts, k) == SpeedsR(pts, Len(pts), k)

\* 1. Speed variation
SpeedCheck(pts) ==
    \E k \in {GapLcm(pts)} :
       \E speeds \in {Speeds(pts, k)} :
          LET n == Len(speeds)
              thirds == n \div 3
              sumFirst == SeqSum(SubSeq(speeds, 1, thirds))
              sumLast == SeqSum(SubSeq(speeds, n - thirds + 1, n))
              \* |avgFirst - avgLast| > 0.05
              hasVariation == 20 * Abs(sumFirst - sumLast) > thirds * k
              \* max > min * 1.5
              hasOverall == 2 * SeqMax(speeds) > 3 * SeqMin(speeds)
          IN  IF n > 10 THEN hasVariation \/ hasOverall ELSE FALSE

\* the pairs of consecutive steps whose magnitudes both exceed 0.5
AnglePairs(pts) ==
    {i \in 3..Len(pts) :
        /\ Dx(pts, i - 1) * Dx(pts, i - 1) + Dy(pts, i - 1) * Dy(pts, i - 1) > 0
        /\ Dx(pts, i) * Dx(pts, i) + Dy(pts, i) * Dy(pts, i) > 0}

\* acos(clamp(dot / (mag1 * mag2))) < 0.3, that is cos > cos(0.3):
\* dot > 0 and dot^2 > cos(0.3)^2 * mag1^2 * mag2^2, cos(0.3)^2 = 0.91267
SmoothAngle(pts, i) ==
    LET v1x == Dx(pts, i - 1)
        v1y == Dy(pts, i - 1)
        v2x == Dx(pts, i)
        v2y == Dy(pts, i)
        dot == v1x * v2x + v1y * v2y
    IN  /\ dot > 0
        /\ 10000 * dot * dot > 9127 * (v1x * v1x + v1y * v1y) * (v2x * v2x + v2y * v2y)

\* 2. Path curvature: 0.3 < smoothRatio < 0.95
CurvesCheck(pts) ==
    LET angleCount == Cardinality(AnglePairs(pts))
        smoothCount == Cardinality({i \in AnglePairs(pts) : SmoothAngle(pts, i)})
        den == Max2(1, angleCount)
    IN  10 * smoothCount > 3 * den /\ 100 * smoothCount < 95 * den

Opposite(a, b) == (a > 0 /\ b < 0) \/ (a < 0 /\ b > 0)

\* reversals: lastDx, lastDy are the previous step's (0 before the first)
Reversals(pts) ==
    Cardinality({i \in 3..Len(pts) : Opposite(Dx(pts, i - 1), Dx(pts, i))})
    + Cardinality({i \in 3..Len(pts) : Opposite(Dy(pts, i - 1), Dy(pts, i))})

\* 3. Micro-movements: reversals / points.length < 0.6
JitterCheck(pts) == 10 * Reversals(pts) < 6 * Len(pts)

Duration(pts) == pts[Len(pts)].t - pts[1].t

\* 4. Timing patterns
TimingCheck(pts) ==
    LET pauseCount == Cardinality({i \in 2..Len(pts) : Dt(pts, i) > 50})
        longPauseCount == Cardinality({i \in 2..Len(pts) : Dt(pts, i) > 150})
    IN  /\ Duration(pts) > 300
        /\ 10 * pauseCount < 3 * Len(pts)
        /\ 10 * longPauseCount < Len(pts)

\* 5. Continuous flow; points.length / (duration / 1000) is Infinity for a
\* zero duration and negative for a negative one
ContinuousCheck(pts) ==
    LET smallGaps == Cardinality({i \in 2..Len(pts) : Dt(pts, i) < 30})
        continuousRatioHigh == 10 * smallGaps > 4 * (Len(pts) - 1)
        pointsPerSecondHigh ==
            IF Duration(pts) > 0 THEN 1000 * Len(pts) > 15 * Duration(pts)
            ELSE Duration(pts) = 0
    IN  continuousRatioHigh /\ pointsPerSecondHigh

\* the divisors of the divisions that no test guards, each with the line of
\* its division.  (The other divisions of the checks are guarded: dist / dt
\* by dt > 0, the thirds by speeds.length > 10, dot / (mag1 * mag2) by both
\* magnitudes > 0.5, the deviations by lineLen >= 10.)
Divisors(pts) ==
    {[at |-> 109, value |-> Max2(1, Cardinality(AnglePairs(pts)))],
     [at |-> 124, value |-> Len(pts)],
     [at |-> 137, value |-> Len(pts)],
     [at |-> 147, value |-> Len(pts) - 1],
     [at |-> 148, value |-> Duration(pts)]}

\* the divisions by zero analyzeMovement performs on pts
ZeroDivisors(pts) == {d \in Divisors(pts) : d.value = 0}

\* 6. the window starts of the straight-line loop (JavaScript indices)
SegmentStarts(pts) ==
    {s \in 0..(Len(pts) - segmentSize - 1) : s % segmentStride = 0}

\* squared endpoint distance of the window starting at JavaScript index s
LineLenSq(pts, s) ==
    LET p1 == pts[s + 1]
        p2 == pts[s + segmentSize]
    IN  (p2.x - p1.x) * (p2.x - p1.x) + (p2.y - p1.y) * (p2.y - p1.y)

\* windows that are not skipped: lineLen >= 10
EvaluatedSegments(pts) == {s \in SegmentStarts(pts) : LineLenSq(pts, s) >= 100}

\* |(y2-y1)px - (x2-x1)py + x2 y1 - y2 x1| for the i-th point of the window
CrossAbs(pts, s, i) ==
    LET p1 == pts[s + 1]
        p2 == pts[s + segmentSize]
        p == pts[s + i]
    IN  Abs((p2.y - p1.y) * p.x - (p2.x - p1.x) * p.y + p2.x * p1.y - p2.y * p1.x)

\* the sum over the interior points, that is totalDeviation * lineLen
CrossSum(pts, s) ==
    SumRange([i \in 2..(segmentSize - 1) |-> CrossAbs(pts, s, i)], 2, segmentSize - 1)

\* faulty variant: no window is ever flagged
TooStraightNever(pts, s) == FALSE

\* deviationRatio < 0.005 && avgDeviation < 2
TooStraight(pts, s) ==
    LET l2 == LineLenSq(pts, s)
        c == CrossSum(pts, s)
        m == segmentSize - 2
    IN  /\ 1000 * c < 5 * m * l2
        /\ c < 2 * m * (FloorSqrt(l2) + 1)
        /\ c * c < 4 * m * m * l2

\* straightRatio < 0.5
StraightRatioLow(pts) ==
    LET totalSegments == Cardinality(EvaluatedSegments(pts))
        tooStraightSegments ==
            Cardinality({s \in EvaluatedSegments(pts) : TooStraight(pts, s)})
    IN  IF totalSegments > 0 THEN 2 * tooStraightSegments < totalSegments ELSE TRUE

\* faulty variant: constant gaps (zero variance) are not counted as regular
TimingTooRegularUnlessConstant(pts) ==
    LET gaps == [i \in 1..(Len(pts) - 1) |-> Dt(pts, i + 1)]
        m == Len(gaps)
        g == SeqSum(gaps)
        q == SeqSum([i \in 1..m |-> gaps[i] * gaps[i]])
        varNum == IF m > 10 THEN m * q - g * g ELSE 0
    IN  IF varNum > 0
        THEN IF g > 0 THEN varNum <= (9 * g * g - 1) \div 625
             ELSE g < 0
        ELSE FALSE

\* 9. isTimingTooRegular: timingCV < 0.12, with m gaps of sum g and sum of
\* squares q: variance = (m q - g^2) / m^2 and mean = g / m
TimingTooRegular(pts) ==
    LET gaps == [i \in 1..(Len(pts) - 1) |-> Dt(pts, i + 1)]
        m == Len(gaps)
        g == SeqSum(gaps)
        q == SeqSum([i \in 1..m |-> gaps[i] * gaps[i]])
        varNum == IF m > 10 THEN m * q - g * g ELSE 0
    IN  IF varNum > 0
        THEN IF g > 0 THEN varNum <= (9 * g * g - 1) \div 625
             ELSE g < 0
        ELSE TRUE

\* checks.notRobotic
NotRoboticCheck(pts, isBezierLike) ==
    StraightRatioLow(pts) /\ ~isBezierLike /\ ~TimingTooRegular(pts)

\* the checks object at the return statement
ComputedChecks(pts, isBezierLike) ==
    [speed |-> SpeedCheck(pts),
     curves |-> CurvesCheck(pts),
     jitter |-> JitterCheck(pts),
     timing |-> TimingCheck(pts),
     continuous |-> ContinuousCheck(pts),
     notRobotic |-> NotRoboticCheck(pts, isBezierLike)]

-----------------------------------------------------------------------------
(* analyzeMovement: defaults, the early return and the aggregation         *)

\* const checks = { speed: false, ..., notRobotic: true }
InitialChecks ==
    [speed |-> FALSE, curves |-> FALSE, jitter |-> FALSE, timing |-> FALSE,
     continuous |-> FALSE, notRobotic |-> TRUE]

\* options.targetHitsRequired || 5
TargetHitsRequiredOf(opts) ==
    OrDefault(opts.targetHitsRequired, DefaultTargetHitsRequired)

\* options.targetHits || 0
TargetHitsOf(opts) == OrDefault(opts.targetHits, 0)

\* faulty variant: the threshold is one point too low
InsufficientDataBelow14(pointsArg) ==
    pointsArg = None \/ Len(Get(pointsArg)) < MinPoints - 1

\* !points || points.length < 15
InsufficientData(pointsArg) ==
    pointsArg = None \/ Len(Get(pointsArg)) < MinPoints

\* faulty variant: the five checks of the earlier versions, notRobotic left out
CheckValuesWithoutNotRobotic(checks) ==
    <<checks.speed, checks.curves, checks.jitter, checks.timing,
      checks.continuous>>

\* [checks.speed, checks.curves, checks.jitter, checks.timing,
\*  checks.continuous, checks.notRobotic]
CheckValues(checks) ==
    <<checks.speed, checks.curves, checks.jitter, checks.timing,
      checks.continuous, checks.notRobotic>>

\* targetHits >= targetHitsRequired
TargetCheck(opts) == TargetHitsOf(opts) >= TargetHitsRequiredOf(opts)

\* faulty variant: the target check is not counted
ChecksPassedWithoutTarget(checks, targetCheck) ==
    CountTrue(CheckValues(checks))

\* checkValues.filter(Boolean).length + (targetCheck ? 1 : 0)
ChecksPassed(checks, targetCheck) ==
    CountTrue(CheckValues(checks)) + (IF targetCheck THEN 1 ELSE 0)

\* faulty variant: three failures are needed instead of two
AiDetectedAtThree(checks) ==
    CountTrue(<<~checks.curves, ~checks.continuous, ~checks.notRobotic,
                ~checks.timing>>) >= 3

\* [!curves, !continuous, !notRobotic, !timing].filter(Boolean).length >= 2
AiDetected(checks) ==
    CountTrue(<<~checks.curves, ~checks.continuous, ~checks.notRobotic,
                ~checks.timing>>) >= 2

\* faulty variant: the target check is not required
AllPassedWithoutTarget(checks, targetCheck) ==
    \A i \in DOMAIN CheckValues(checks) : CheckValues(checks)[i]

\* checkValues.every(Boolean) && targetCheck
AllPassed(checks, targetCheck) ==
    (\A i \in DOMAIN CheckValues(checks) : CheckValues(checks)[i]) /\ targetCheck

\* the object returned when there are too few points
InsufficientResult ==
    [verified |-> FALSE,
     reason |-> Some("insufficient_data"),
     checks |-> InitialChecks,
     checksPassed |-> 0,
     aiDetected |-> FALSE]

\* the object returned after the full analysis (metrics left out)
ReturnedObject(pts, opts, checks) ==
    [verified |-> AllPassed(checks, TargetCheck(opts)),
     reason |-> None,
     checks |-> checks,
     checksPassed |-> ChecksPassed(checks, TargetCheck(opts)),
     totalChecks |-> TotalChecks,
     aiDetected |-> AiDetected(checks),
     duration |-> Duration(pts),
     pointCount |-> Len(pts)]

\* the checks are computed once, then aggregated
FullResult(pts, opts, isBezierLike) ==
    CHOOSE r \in {ReturnedObject(pts, opts, checks) :
                     checks \in {ComputedChecks(pts, isBezierLike)}} : TRUE

analyzeMovement(pointsArg, opts, isBezierLike) ==
    IF InsufficientData(pointsArg) THEN InsufficientResult
    ELSE CHOOSE r \in {FullResult(pts, opts, isBezierLike) : pts \in pointsArg} : TRUE

\* the browser's _analyzeMovement() on this.state.movementData: the same
\* five checks, and notRobotic from the straightness ratio alone
ClientAnalyzeMovement(pts) ==
    IF Len(pts) < MinPoints THEN InitialChecks
    ELSE [speed |-> SpeedCheck(pts),
          curves |-> CurvesCheck(pts),
          jitter |-> JitterCheck(pts),
          timing |-> TimingCheck(pts),
          continuous |-> ContinuousCheck(pts),
          notRobotic |-> StraightRatioLow(pts)]

-----------------------------------------------------------------------------
(* The inputs: paths built from a cyclic pattern of steps and a cyclic     *)
(* pattern of time gaps                                                    *)

MaxLen == 30
MaxHits == 6

Step(dx, dy) == [dx |-> dx, dy |-> dy]

StepPatterns ==
    << <<Step(0, 0)>>,                                   \* no movement
       <<Step(5, 0)>>,                                   \* a straight line
       <<Step(5, 0), Step(-5, 0)>>,                      \* back and forth
       <<Step(5, 0), Step(5, 0), Step(4, 3), Step(4, 3), \* a wavy path
         Step(3, 4), Step(3, 4), Step(4, 3), Step(4, 3),
         Step(5, 0), Step(5, 0), Step(4, -3), Step(4, -3)>> >>

GapPatterns ==
    << <<0>>,                \* all samples at the same instant
       <<16>>,               \* a constant frame interval
       <<8, 16, 24, 12>>,    \* irregular, dense
       <<60, 16>>,           \* every other gap is a pause
       <<240>> >>            \* long pauses only

Cyc(pat, i) == pat[((i - 1) % Len(pat)) + 1]

RECURSIVE MkPoints(_, _, _)
MkPoints(n, steps, gaps) ==
    IF n = 0 THEN <<>>
    ELSE IF n = 1 THEN <<[x |-> 100, y |-> 100, t |-> 1000]>>
    ELSE LET prev == MkPoints(n - 1, steps, gaps)
             last == prev[n - 1]
         IN  Append(prev, [x |-> last.x + Cyc(steps, n - 1).dx,
                           y |-> last.y + Cyc(steps, n - 1).dy,
                           t |-> last.t + Cyc(gaps, n - 1)])

Lengths == {0, MinPoints - 1, MinPoints, segmentSize + 1, MaxLen}

\* 50 points evenly spaced on a straight line, 16 ms between samples
StraightLinePaths ==
    {MkPoints(50, <<st>>, GapPatterns[2]) :
        st \in {Step(1, 0), Step(5, 0), Step(3, 4)}}

\* 20 samples that are all the same point at the same instant
IdenticalSamples == MkPoints(20, StepPatterns[1], GapPatterns[1])

\* 21 samples of the wavy path with 2 long pauses, and with 6 pauses, in
\* their 20 steps
PausePaths ==
    {MkPoints(segmentSize + 1, StepPatterns[4], gaps) :
        gaps \in {<<200, 16, 12, 20, 16, 8, 16, 24, 16, 12>>,
                  <<60, 16, 12, 60, 16, 8, 60, 24, 16, 12>>}}

Paths ==
    {MkPoints(n, StepPatterns[a], GapPatterns[b]) :
        n \in Lengths, a \in 1..Len(StepPatterns), b \in 1..Len(GapPatterns)}
    \cup StraightLinePaths \cup {IdenticalSamples} \cup PausePaths

PointsArgs == {None} \cup {Some(p) : p \in Paths}

HitsArgs == {None} \cup {Some(h) : h \in 0..MaxHits}

OptionsArgs == [targetHitsRequired : HitsArgs, targetHits : HitsArgs]

-----------------------------------------------------------------------------
(* Analysis harness: the arguments are drawn, then analyzeMovement runs    *)

\* the browser clock when the page is loaded
ClientStart == 1000

\* new AIMouseCheck(options): this.state, with the timers it will own (the
\* delayed callbacks of setTimeout in pending), the clock, and the history
\* of what was delivered
ClientIdle ==
    [modal |-> FALSE, samples |-> 0, targetHits |-> 0,
     targetMoveTime |-> 0, isCapturing |-> FALSE, startTime |-> 0,
     checkInterval |-> FALSE, timeoutId |-> FALSE, pending |-> <<>>,
     clock |-> ClientStart, ticks |-> 0, clicks |-> 0, called |-> FALSE,
     hitTimes |-> <<>>, lastEvent |-> [kind |-> "none"],
     successCalls |-> 0, failureCalls |-> 0, failureReasons |-> {},
     promise |-> "pending"]

ServerIdle ==
    /\ verifiedSessions = <<>>
    /\ now = 0
    /\ req = [kind |-> "none"]
    /\ resp = [kind |-> "none"]
    /\ issued = {}
    /\ nreq = 0
    /\ nticks = 0

AnalysisInit ==
    /\ phase = "ready"
    /\ points \in PointsArgs
    /\ options \in OptionsArgs
    /\ bezierLike \in BOOLEAN
    /\ result = None
    /\ ServerIdle
    /\ sign = None
    /\ inflight = <<>>
    /\ client = ClientIdle

Analyze ==
    /\ phase = "ready"
    /\ phase' = "done"
    /\ result' = Some(analyzeMovement(points, options, bezierLike))
    /\ UNCHANGED <<points, options, bezierLike>>
    /\ UNCHANGED <<serverVars, otherVars>>

AnalysisNext == Analyze

AnalysisSpec == AnalysisInit /\ [][AnalysisNext]_vars

Returned == phase = "done"
Res == Get(result)

-----------------------------------------------------------------------------
(* Signing.  A hex digest is modelled by its first 16 characters (head)    *)
(* and the rest (body).  Digests of different payloads differ in the body; *)
(* the 16-character head is a lossy function of the payload.               *)

TTL == 3600000
HashSpace == 5
HeadSpace == 3
MaxDrift == 1
MaxReq == 3
MaxTicks == 2

SECRET_KEY == "change-this-in-production"

\* hashMovement: sha256 of JSON.stringify(points), order-sensitive
hashMovement(pts) ==
    (1 + SumRange([i \in 1..Len(pts) |-> i * (pts[i].x + 2 * pts[i].y + pts[i].t)],
                  1, Len(pts))) % HashSpace

StrCode(str) ==
    CASE str = "anonymous" -> 1
      [] str = "r1" -> 2
      [] OTHER -> 0

\* createHmac('sha256', key).update(payload).digest('hex')
Hmac(key, payload) ==
    [head |-> (payload.movementHash + StrCode(payload.recordId)
               + payload.timestamp + payload.checksPassed + StrCode(key)) % HeadSpace,
     body |-> payload]

\* generateSignature(secretKey, data), Date.now() reading t
generateSignature(secretKey, data, t) ==
    LET payload == [movementHash |-> hashMovement(data.points),
                    recordId |-> data.recordId,
                    timestamp |-> t,
                    checksPassed |-> data.checksPassed]
    IN  [signature |-> Hmac(secretKey, payload),
         timestamp |-> t,
         payload |-> payload]

\* signature.slice(0, 16)
Slice16(signature) == signature.head

\* the number of characters of digest('hex') of a sha256
DigestLength == 64

\* a string handed in as a signature: the first `length` characters of the
\* hex digest `text`, or the digest followed by other characters when it is
\* longer than a digest
SignatureString(text, length) == [text |-> text, length |-> length]

\* a hex digest as the string it is
DigestString(digest) == SignatureString(digest, DigestLength)

\* how a call ends: it returns a value or it throws
ReturnedValue(v) == [threw |-> FALSE, value |-> Some(v)]
Thrown == [threw |-> TRUE, value |-> None]

\* faulty variant: only the first 16 characters are compared
verifySignaturePrefixOnly(secretKey, signature, payload) ==
    IF signature.length # DigestLength THEN Thrown
    ELSE ReturnedValue(Slice16(signature.text)
                          = Slice16(Hmac(secretKey, payload)))

\* verifySignature(secretKey, signature, payload): crypto.timingSafeEqual
\* throws a RangeError when its two buffers differ in byte length
verifySignature(secretKey, signature, payload) ==
    LET expectedSignature == DigestString(Hmac(secretKey, payload))
    IN  IF signature.length # expectedSignature.length THEN Thrown
        ELSE ReturnedValue(signature = expectedSignature)

-----------------------------------------------------------------------------
(* verifiedSessions: a Map, modelled as the sequence of its entries in     *)
(* insertion order; an entry is the key with the stored value's fields     *)

MapKeys(m) == {m[i].key : i \in 1..Len(m)}
MapHas(m, k) == k \in MapKeys(m)
MapIndex(m, k) == CHOOSE i \in 1..Len(m) : m[i].key = k
MapGet(m, k) == m[MapIndex(m, k)]

\* Map.prototype.set: an existing key keeps its place and gets the new value
MapSet(m, e) ==
    IF MapHas(m, e.key) THEN [m EXCEPT ![MapIndex(m, e.key)] = e]
    ELSE Append(m, e)

\* Map.prototype.delete
MapDelete(m, k) == SelectSeq(m, LAMBDA e : e.key # k)

\* faulty variant: the defaulted recordId that was signed is stored
SessionEntryDefaulted(sessionId, sigData, recordId, tset) ==
    [key |-> sessionId,
     signature |-> sigData.signature,
     timestamp |-> sigData.timestamp,
     recordId |-> Some(OrDefaultStr(recordId, "anonymous")),
     expiresAt |-> tset + TTL]

\* the value stored by POST /api/verify; tset is Date.now() at the set
SessionEntry(sessionId, sigData, recordId, tset) ==
    [key |-> sessionId,
     signature |-> sigData.signature,
     timestamp |-> sigData.timestamp,
     recordId |-> recordId,
     expiresAt |-> tset + TTL]

\* faulty variant: the sweep keeps a session for a second TTL
SweepExpiredLate(entry, t) == entry.expiresAt + TTL < t

\* value.expiresAt < Date.now() in the sweep
SweepExpired(entry, t) == entry.expiresAt < t

\* faulty variant: the lookup does not test the expiry
LookupExpiredNever(session, t) == FALSE

\* faulty variant: a session is kept for a second TTL
LookupExpiredLate(session, t) == session.expiresAt + TTL < t

\* session.expiresAt < Date.now() in the lookup
LookupExpired(session, t) == session.expiresAt < t

\* the sweep loop; reads[i] is Date.now() at the i-th entry
RECURSIVE Sweep(_, _, _)
Sweep(m, reads, i) ==
    IF i = 0 THEN <<>>
    ELSE IF SweepExpired(m[i], reads[i]) THEN Sweep(m, reads, i - 1)
    ELSE Append(Sweep(m, reads, i - 1), m[i])

\* successive Date.now() readings never decrease
ClockReads(n, lo, hi) ==
    {r \in [1..n -> lo..hi] : \A i \in 1..(n - 1) : r[i] <= r[i + 1]}

\* JSON null, and a field that carries a value
Null == <<>>
Val(v) == <<v>>

-----------------------------------------------------------------------------
(* The request handlers                                                    *)

\* a digest that no issuance produces
ForgedDigest ==
    [head |-> 0,
     body |-> [movementHash |-> 0, recordId |-> "forged", timestamp |-> 0,
               checksPassed |-> 0]]

\* the paths posted to the server: too short, a straight line, a wavy path
ServerPaths ==
    {MkPoints(MinPoints - 1, StepPatterns[4], GapPatterns[3]),
     MkPoints(MaxLen, StepPatterns[2], GapPatterns[2]),
     MkPoints(MaxLen, StepPatterns[4], GapPatterns[3])}

RecordIds == {None, Some("anonymous"), Some("r1")}

ServerHits == {None, Some(DefaultTargetHitsRequired)}

Init ==
    /\ phase = "off"
    /\ points = None
    /\ options = [targetHitsRequired |-> None, targetHits |-> None]
    /\ bezierLike = FALSE
    /\ result = None
    /\ ServerIdle
    /\ sign = None
    /\ inflight = <<>>
    /\ client = ClientIdle

\* faulty variant: the analysis is run on whatever was posted
VerifyMalformedAnalysed(pointsKind) ==
    /\ nreq < MaxReq
    /\ pointsKind \in {"missing", "other"}
    /\ req' = [kind |-> "verify", pointsKind |-> pointsKind]
    /\ resp' = [kind |-> "verify", status |-> 200, verified |-> FALSE,
                aiDetected |-> InsufficientResult.aiDetected,
                checks |-> InsufficientResult.checks,
                checksPassed |-> InsufficientResult.checksPassed,
                reason |-> "insufficient_data"]
    /\ nreq' = nreq + 1
    /\ UNCHANGED <<verifiedSessions, now, issued, nticks>>
    /\ UNCHANGED <<analysisVars, otherVars>>

\* POST /api/verify answered 400: points missing or not an array
VerifyMalformed(pointsKind) ==
    /\ nreq < MaxReq
    /\ pointsKind \in {"missing", "other"}
    /\ req' = [kind |-> "verify", pointsKind |-> pointsKind]
    /\ resp' = [kind |-> "verify", status |-> 400,
                error |-> "Missing or invalid points array"]
    /\ nreq' = nreq + 1
    /\ UNCHANGED <<verifiedSessions, now, issued, nticks>>
    /\ UNCHANGED <<analysisVars, otherVars>>

\* the analysis POST /api/verify runs
ServerAnalysis(pts, targetHits, isBezierLike) ==
    analyzeMovement(Some(pts),
                    [targetHits |-> Some(OrDefault(targetHits, 0)),
                     targetHitsRequired |-> Some(5)],
                    isBezierLike)

\* the bodies posted with a points array; analyzeMovement is a pure
\* function of the body, so its result is tabulated once per body
AnalysisRuns ==
    {[points |-> pts, targetHits |-> h,
      result |-> ServerAnalysis(pts, h, bz)] :
        pts \in ServerPaths, h \in ServerHits, bz \in BOOLEAN}

\* faulty variant: the session is stored whatever the analysis returned
VerifyRejectedStoring(run, recordId) ==
    /\ nreq < MaxReq
    /\ ~run.result.verified
    /\ req' = [kind |-> "verify", pointsKind |-> "array", recordId |-> recordId]
    /\ resp' = [kind |-> "verify", status |-> 200, verified |-> FALSE,
                aiDetected |-> run.result.aiDetected,
                checks |-> run.result.checks,
                checksPassed |-> run.result.checksPassed,
                reason |-> OrDefaultStr(run.result.reason, "checks_failed")]
    /\ verifiedSessions' =
          MapSet(verifiedSessions,
                 SessionEntry(0, [signature |-> ForgedDigest, timestamp |-> now],
                              recordId, now))
    /\ nreq' = nreq + 1
    /\ UNCHANGED <<now, issued, nticks>>
    /\ UNCHANGED <<analysisVars, otherVars>>

\* POST /api/verify, analysis not verified
VerifyRejected(run, recordId) ==
    /\ nreq < MaxReq
    /\ ~run.result.verified
    /\ req' = [kind |-> "verify", pointsKind |-> "array", recordId |-> recordId]
    /\ resp' = [kind |-> "verify", status |-> 200, verified |-> FALSE,
                aiDetected |-> run.result.aiDetected,
                checks |-> run.result.checks,
                checksPassed |-> run.result.checksPassed,
                reason |-> OrDefaultStr(run.result.reason, "checks_failed")]
    /\ nreq' = nreq + 1
    /\ UNCHANGED <<verifiedSessions, now, issued, nticks>>
    /\ UNCHANGED <<analysisVars, otherVars>>

\* POST /api/verify, analysis verified: sign, store, sweep.  ts and tset
\* are the Date.now() readings of generateSignature and of the set, reads
\* those of the sweep loop; the clock is left at the last reading
VerifyIssued(run, recordId, ts, tset) ==
    /\ nreq < MaxReq
    /\ run.result.verified
    /\ \E sigData \in {generateSignature(SECRET_KEY,
                           [points |-> run.points,
                            recordId |-> OrDefaultStr(recordId, "anonymous"),
                            checksPassed |-> run.result.checksPassed], ts)} :
          LET sessionId == Slice16(sigData.signature)
              entry == SessionEntry(sessionId, sigData, recordId, tset)
              stored == MapSet(verifiedSessions, entry)
          IN  /\ \E reads \in ClockReads(Len(stored), tset, now + MaxDrift) :
                    /\ verifiedSessions' = Sweep(stored, reads, Len(stored))
                    /\ now' = reads[Len(stored)]
              /\ resp' = [kind |-> "verify", status |-> 200, verified |-> TRUE,
                          signature |-> sigData.signature,
                          sessionId |-> sessionId,
                          timestamp |-> sigData.timestamp,
                          checks |-> run.result.checks,
                          checksPassed |-> run.result.checksPassed]
              /\ issued' = issued \cup {entry}
    /\ req' = [kind |-> "verify", pointsKind |-> "array", recordId |-> recordId]
    /\ nreq' = nreq + 1
    /\ UNCHANGED nticks
    /\ UNCHANGED <<analysisVars, otherVars>>

\* a posted array of `length` elements whose elements at the positions
\* nullAt are null (JSON null) and the others points
NullBodies ==
    {[length |-> n, nullAt |-> {k}] :
        n \in {MinPoints - 1, MinPoints}, k \in {1, MinPoints - 1}}

\* analyzeMovement on such an array: below 15 elements it returns before
\* reading any element; otherwise the speed loop reads .x of every element
\* and throws a TypeError at the first null
analyzeMovementThrows(body) ==
    /\ ~(body.length < MinPoints)
    /\ \E i \in 1..(body.length - 1) : (i + 1) \in body.nullAt \/ i \in body.nullAt

\* faulty variant: the exception's message is sent to the caller
InternalErrorExposed ==
    [kind |-> "verify", status |-> 500,
     error |-> "Cannot read properties of null (reading 'x')"]

\* the answer of the catch clause of POST /api/verify
InternalError ==
    [kind |-> "verify", status |-> 500, error |-> "Internal server error"]

\* POST /api/verify with an array holding a null element: the exception of
\* analyzeMovement is caught before anything is signed or stored
VerifyNullElement(body, recordId) ==
    /\ nreq < MaxReq
    /\ req' = [kind |-> "verify", pointsKind |-> "arrayWithNull",
               pointCount |-> body.length, recordId |-> recordId]
    /\ resp' = IF analyzeMovementThrows(body) THEN InternalError
               ELSE [kind |-> "verify", status |-> 200, verified |-> FALSE,
                     aiDetected |-> InsufficientResult.aiDetected,
                     checks |-> InsufficientResult.checks,
                     checksPassed |-> InsufficientResult.checksPassed,
                     reason |-> OrDefaultStr(InsufficientResult.reason,
                                             "checks_failed")]
    /\ nreq' = nreq + 1
    /\ UNCHANGED <<verifiedSessions, now, issued, nticks>>
    /\ UNCHANGED <<analysisVars, otherVars>>

Verify ==
    \/ \E pk \in {"missing", "other"} : VerifyMalformed(pk)
    \/ \E body \in NullBodies, rid \in RecordIds : VerifyNullElement(body, rid)
    \/ \E run \in AnalysisRuns, rid \in RecordIds : VerifyRejected(run, rid)
    \/ \E run \in AnalysisRuns, rid \in RecordIds :
          \E ts \in now..(now + MaxDrift) :
             \E tset \in ts..(now + MaxDrift) :
                VerifyIssued(run, rid, ts, tset)

\* the session ids and signatures a caller may send: any id, and any
\* signature issued so far or a made-up one
SessionIdArgs == {None} \cup {Some(h) : h \in 0..(HeadSpace - 1)}

ForgedSignature == ForgedDigest

SignatureArgs ==
    {None} \cup {Some(e.signature) : e \in issued} \cup {Some(ForgedSignature)}

\* POST /api/verify-signature answered 400
VerifySignatureMalformed(sessionId, signature) ==
    /\ nreq < MaxReq
    /\ sessionId = None \/ signature = None
    /\ req' = [kind |-> "verify-signature", sessionId |-> sessionId,
               signature |-> signature]
    /\ resp' = [kind |-> "verify-signature", status |-> 400,
                error |-> "Missing sessionId or signature"]
    /\ nreq' = nreq + 1
    /\ UNCHANGED <<verifiedSessions, now, issued, nticks>>
    /\ UNCHANGED <<analysisVars, otherVars>>

\* faulty variant: an unknown session id empties the registry
VerifySignatureNotFoundClearing(sessionId, signature) ==
    /\ nreq < MaxReq
    /\ sessionId # None /\ signature # None
    /\ ~MapHas(verifiedSessions, Get(sessionId))
    /\ req' = [kind |-> "verify-signature", sessionId |-> sessionId,
               signature |-> signature]
    /\ resp' = [kind |-> "verify-signature", status |-> 200, valid |-> FALSE,
                reason |-> Some("session_not_found")]
    /\ verifiedSessions' = <<>>
    /\ nreq' = nreq + 1
    /\ UNCHANGED <<now, issued, nticks>>
    /\ UNCHANGED <<analysisVars, otherVars>>

\* POST /api/verify-signature, no session under the id
VerifySignatureNotFound(sessionId, signature) ==
    /\ nreq < MaxReq
    /\ sessionId # None /\ signature # None
    /\ ~MapHas(verifiedSessions, Get(sessionId))
    /\ req' = [kind |-> "verify-signature", sessionId |-> sessionId,
               signature |-> signature]
    /\ resp' = [kind |-> "verify-signature", status |-> 200, valid |-> FALSE,
                reason |-> Some("session_not_found")]
    /\ nreq' = nreq + 1
    /\ UNCHANGED <<verifiedSessions, now, issued, nticks>>
    /\ UNCHANGED <<analysisVars, otherVars>>

\* faulty variant: a session can be looked up once
VerifySignatureFoundOnce(sessionId, signature, t) ==
    /\ nreq < MaxReq
    /\ sessionId # None /\ signature # None
    /\ MapHas(verifiedSessions, Get(sessionId))
    /\ LET session == MapGet(verifiedSessions, Get(sessionId))
           valid == session.signature = Get(signature)
       IN  /\ verifiedSessions' = MapDelete(verifiedSessions, Get(sessionId))
           /\ resp' = IF LookupExpired(session, t)
                      THEN [kind |-> "verify-signature", status |-> 200,
                            valid |-> FALSE, reason |-> Some("session_expired")]
                      ELSE [kind |-> "verify-signature", status |-> 200,
                            valid |-> valid, reason |-> None,
                            recordId |-> IF valid THEN Val(session.recordId) ELSE Null,
                            timestamp |-> IF valid THEN Val(session.timestamp) ELSE Null]
    /\ req' = [kind |-> "verify-signature", sessionId |-> sessionId,
               signature |-> signature]
    /\ now' = t
    /\ nreq' = nreq + 1
    /\ UNCHANGED <<issued, nticks>>
    /\ UNCHANGED <<analysisVars, otherVars>>

\* POST /api/verify-signature, a session is stored under the id; t is the
\* Date.now() reading of the expiry test
VerifySignatureFound(sessionId, signature, t) ==
    /\ nreq < MaxReq
    /\ sessionId # None /\ signature # None
    /\ MapHas(verifiedSessions, Get(sessionId))
    /\ LET session == MapGet(verifiedSessions, Get(sessionId))
           valid == session.signature = Get(signature)
       IN  IF LookupExpired(session, t)
           THEN /\ verifiedSessions' = MapDelete(verifiedSessions, Get(sessionId))
                /\ resp' = [kind |-> "verify-signature", status |-> 200,
                            valid |-> FALSE, reason |-> Some("session_expired")]
           ELSE /\ verifiedSessions' = verifiedSessions
                /\ resp' = [kind |-> "verify-signature", status |-> 200,
                            valid |-> valid, reason |-> None,
                            recordId |-> IF valid THEN Val(session.recordId) ELSE Null,
                            timestamp |-> IF valid THEN Val(session.timestamp) ELSE Null]
    /\ req' = [kind |-> "verify-signature", sessionId |-> sessionId,
               signature |-> signature]
    /\ now' = t
    /\ nreq' = nreq + 1
    /\ UNCHANGED <<issued, nticks>>
    /\ UNCHANGED <<analysisVars, otherVars>>

VerifySignatureRequest ==
    \/ \E sid \in SessionIdArgs, sig \in SignatureArgs :
          VerifySignatureMalformed(sid, sig)
    \/ \E sid \in SessionIdArgs, sig \in SignatureArgs :
          VerifySignatureNotFound(sid, sig)
    \/ \E sid \in SessionIdArgs, sig \in SignatureArgs :
          \E t \in now..(now + MaxDrift) : VerifySignatureFound(sid, sig, t)

\* GET /api/health
Health ==
    /\ nreq < MaxReq
    /\ req' = [kind |-> "health"]
    /\ resp' = [kind |-> "health", status |-> "ok",
                serverSideVerification |-> TRUE,
                activeSessions |-> Len(verifiedSessions)]
    /\ nreq' = nreq + 1
    /\ UNCHANGED <<verifiedSessions, now, issued, nticks>>
    /\ UNCHANGED <<analysisVars, otherVars>>

\* time passes between two requests: a millisecond, or the whole TTL
Tick ==
    /\ nticks < MaxTicks
    /\ \E d \in {1, TTL} : now' = now + d
    /\ nticks' = nticks + 1
    /\ UNCHANGED <<verifiedSessions, req, resp, issued, nreq>>
    /\ UNCHANGED <<analysisVars, otherVars>>

Next == Verify \/ VerifySignatureRequest \/ Health \/ Tick

Spec == Init /\ [][Next]_vars

-----------------------------------------------------------------------------
(* The event loop, one registry access at a time.  inflight holds the      *)
(* handler calls that have begun and not yet returned, each with its       *)
(* position (pc) and its local variables.  Both handlers are synchronous   *)
(* functions: nothing in them awaits or defers, so a call runs from its    *)
(* first statement to its return before the loop calls anything else.      *)

\* faulty variant: a handler may be called while another has not returned
CallStackAny == TRUE

\* the event loop calls a handler only when no call is running
CallStackEmpty == inflight = <<>>

\* the posted bodies whose analysis is verified
VerifiedRuns == {run \in AnalysisRuns : run.result.verified}

\* inflight with the k-th call changed, and with the k-th call removed
CallUpdated(k, call) == [inflight EXCEPT ![k] = call]
CallRemoved(k) ==
    [i \in 1..(Len(inflight) - 1) |-> IF i < k THEN inflight[i] ELSE inflight[i + 1]]

\* POST /api/verify is called with a body that verifies: the signature is
\* generated (no registry access yet)
LoopCallVerify(run, recordId) ==
    /\ nreq < MaxReq
    /\ CallStackEmpty
    /\ \E sigData \in {generateSignature(SECRET_KEY,
                           [points |-> run.points,
                            recordId |-> OrDefaultStr(recordId, "anonymous"),
                            checksPassed |-> run.result.checksPassed], now)} :
          inflight' = Append(inflight,
                        [kind |-> "verify", pc |-> "set",
                         sessionId |-> Slice16(sigData.signature),
                         sigData |-> Some(sigData), recordId |-> recordId,
                         cursor |-> 0, session |-> None])
    /\ nreq' = nreq + 1
    /\ UNCHANGED <<verifiedSessions, now, req, resp, issued, nticks>>
    /\ UNCHANGED <<analysisVars, sign, client>>

\* POST /api/verify-signature is called with a sessionId and a signature
LoopCallVerifySignature(sessionId) ==
    /\ nreq < MaxReq
    /\ CallStackEmpty
    /\ inflight' = Append(inflight,
                     [kind |-> "verify-signature", pc |-> "get",
                      sessionId |-> sessionId,
                      sigData |-> None, recordId |-> None,
                      cursor |-> 0, session |-> None])
    /\ nreq' = nreq + 1
    /\ UNCHANGED <<verifiedSessions, now, req, resp, issued, nticks>>
    /\ UNCHANGED <<analysisVars, sign, client>>

\* verifiedSessions.set(sessionId, {...})
LoopSet(k) ==
    /\ inflight[k].pc = "set"
    /\ verifiedSessions' =
          MapSet(verifiedSessions,
                 SessionEntry(inflight[k].sessionId, Get(inflight[k].sigData),
                              inflight[k].recordId, now))
    /\ inflight' = CallUpdated(k, [inflight[k] EXCEPT !.pc = "sweep", !.cursor = 1])
    /\ UNCHANGED <<now, req, resp, issued, nreq, nticks>>
    /\ UNCHANGED <<analysisVars, sign, client>>

\* one iteration of the sweep loop, or its end
LoopSweep(k) ==
    /\ inflight[k].pc = "sweep"
    /\ LET i == inflight[k].cursor
       IN  IF i > Len(verifiedSessions)
           THEN /\ inflight' = CallUpdated(k, [inflight[k] EXCEPT !.pc = "return"])
                /\ UNCHANGED verifiedSessions
           ELSE IF SweepExpired(verifiedSessions[i], now)
           THEN /\ verifiedSessions' = MapDelete(verifiedSessions, verifiedSessions[i].key)
                /\ UNCHANGED inflight
           ELSE /\ inflight' = CallUpdated(k, [inflight[k] EXCEPT !.cursor = i + 1])
                /\ UNCHANGED verifiedSessions
    /\ UNCHANGED <<now, req, resp, issued, nreq, nticks>>
    /\ UNCHANGED <<analysisVars, sign, client>>

\* const session = verifiedSessions.get(sessionId)
LoopGet(k) ==
    /\ inflight[k].pc = "get"
    /\ inflight' = CallUpdated(k,
          IF MapHas(verifiedSessions, inflight[k].sessionId)
          THEN [inflight[k] EXCEPT !.pc = "expiry",
                   !.session = Some(MapGet(verifiedSessions, inflight[k].sessionId))]
          ELSE [inflight[k] EXCEPT !.pc = "return"])
    /\ UNCHANGED <<verifiedSessions, now, req, resp, issued, nreq, nticks>>
    /\ UNCHANGED <<analysisVars, sign, client>>

\* the expiry test of the lookup and its eviction
LoopExpiry(k) ==
    /\ inflight[k].pc = "expiry"
    /\ verifiedSessions' =
          IF LookupExpired(Get(inflight[k].session), now)
          THEN MapDelete(verifiedSessions, inflight[k].sessionId)
          ELSE verifiedSessions
    /\ inflight' = CallUpdated(k, [inflight[k] EXCEPT !.pc = "return"])
    /\ UNCHANGED <<now, req, resp, issued, nreq, nticks>>
    /\ UNCHANGED <<analysisVars, sign, client>>

\* return res.json(...)
LoopReturn(k) ==
    /\ inflight[k].pc = "return"
    /\ inflight' = CallRemoved(k)
    /\ UNCHANGED <<verifiedSessions, now, req, resp, issued, nreq, nticks>>
    /\ UNCHANGED <<analysisVars, sign, client>>

\* the clock advances: by a millisecond at any moment, by the TTL between
\* two calls
LoopTick(d) ==
    /\ nticks < MaxTicks
    /\ d = TTL => inflight = <<>>
    /\ now' = now + d
    /\ nticks' = nticks + 1
    /\ UNCHANGED <<verifiedSessions, req, resp, issued, nreq, inflight>>
    /\ UNCHANGED <<analysisVars, sign, client>>

LoopNext ==
    \/ \E run \in VerifiedRuns, rid \in RecordIds : LoopCallVerify(run, rid)
    \/ \E sid \in 0..(HeadSpace - 1) : LoopCallVerifySignature(sid)
    \/ \E k \in 1..Len(inflight) : LoopSet(k)
    \/ \E k \in 1..Len(inflight) : LoopSweep(k)
    \/ \E k \in 1..Len(inflight) : LoopGet(k)
    \/ \E k \in 1..Len(inflight) : LoopExpiry(k)
    \/ \E k \in 1..Len(inflight) : LoopReturn(k)
    \/ \E d \in {1, TTL} : LoopTick(d)

LoopSpec == Init /\ [][LoopNext]_vars

-----------------------------------------------------------------------------
(* The browser client: one AIMouseCheck, its modal, its mouse handlers and *)
(* its timers.  A timer that is set fires at some later moment unless it   *)
(* is cleared first; the clock is the browser's Date.now().                *)

HitRadius == 40
ReactionFloor == 150
MinSamples == 10

ClientHitsRequired == 2
MaxClientTicks == 4
MaxClicks == 2

\* the rest of the model's variables, which the client leaves alone
nonClientVars == <<analysisVars, serverVars, sign, inflight>>

\* faulty variant: a hit counts as soon as the floor is reached
ReactionFloorReached(reactionTime) == reactionTime >= ReactionFloor

\* reactionTime > 150
ReactionFloorPassed(reactionTime) == reactionTime > ReactionFloor

\* _cleanup(): both timers are cleared
Cleanup(c) == [c EXCEPT !.checkInterval = FALSE, !.timeoutId = FALSE]

\* _handleSuccess(checks): cleanup, then setTimeout(..., 1000)
HandleSuccess(c) == [Cleanup(c) EXCEPT !.pending = Append(@, "success")]

\* faulty variant: the failure is shown but its callback is never scheduled
HandleFailureUnscheduled(c, reason) == Cleanup(c)

\* _handleFailure(reason): cleanup, then setTimeout(..., 1500)
HandleFailure(c, reason) == [Cleanup(c) EXCEPT !.pending = Append(@, reason)]

\* verifyAsync() -> verify(): _createModal() and _showModal()
ClientVerify ==
    /\ ~client.called
    /\ client' = [client EXCEPT !.called = TRUE, !.modal = TRUE,
                                !.samples = 0, !.targetHits = 0,
                                !.isCapturing = FALSE,
                                !.startTime = client.clock,
                                !.timeoutId = TRUE, !.checkInterval = TRUE,
                                !.lastEvent = [kind |-> "other"]]
    /\ UNCHANGED nonClientVars

\* area.onmouseenter: capturing starts and moveTarget() runs
MouseEnter ==
    /\ client.modal
    /\ client' = [client EXCEPT !.isCapturing = TRUE,
                                !.targetMoveTime = client.clock,
                                !.lastEvent = [kind |-> "other"]]
    /\ UNCHANGED nonClientVars

\* area.onmouseleave
MouseLeave ==
    /\ client.modal
    /\ client' = [client EXCEPT !.isCapturing = FALSE,
                                !.lastEvent = [kind |-> "other"]]
    /\ UNCHANGED nonClientVars

\* area.onmousemove at distance dist from the target centre; the clock
\* advances by d between the sample's Date.now() and the later readings
MouseMove(dist, d) ==
    /\ client.modal
    /\ client.isCapturing
    /\ d > 0 => client.ticks < MaxClientTicks
    /\ LET reactionTime == client.clock + d - client.targetMoveTime
           hit == /\ dist < HitRadius
                  /\ client.targetMoveTime > 0
                  /\ ReactionFloorPassed(reactionTime)
       IN  client' =
             [client EXCEPT
                !.samples = IF @ < MinPoints THEN @ + 1 ELSE @,
                !.clock = @ + d,
                !.ticks = @ + d,
                !.targetHits = IF hit THEN @ + 1 ELSE @,
                !.hitTimes = IF hit THEN Append(@, client.clock + d) ELSE @,
                !.targetMoveTime = IF hit THEN client.clock + d ELSE @,
                !.lastEvent = [kind |-> "mousemove", dist |-> dist]]
    /\ UNCHANGED nonClientVars

\* the 100 ms check interval; checksOk is whether the six checks of
\* _analyzeMovement() hold on the captured samples (never below 15)
CheckTick(checksOk) ==
    /\ client.checkInterval
    /\ LET allPassed == /\ checksOk
                        /\ ~(client.samples < MinPoints)
                        /\ client.targetHits >= ClientHitsRequired
       IN  client' =
             [(IF ~(client.samples < MinSamples) /\ allPassed
               THEN HandleSuccess(client) ELSE client)
              EXCEPT !.lastEvent = [kind |-> "other"]]
    /\ UNCHANGED nonClientVars

\* the timeout timer fires
TimeoutFires ==
    /\ client.timeoutId
    /\ client' = [HandleFailure(client, "timeout")
                     EXCEPT !.lastEvent = [kind |-> "other"]]
    /\ UNCHANGED nonClientVars

\* a click on the close button of the modal
CloseClick ==
    /\ client.modal
    /\ client.clicks < MaxClicks
    /\ client' = [HandleFailure(client, "cancelled")
                     EXCEPT !.clicks = @ + 1,
                            !.lastEvent = [kind |-> "other"]]
    /\ UNCHANGED nonClientVars

\* pending without its i-th callback
PendingWithout(i) ==
    [j \in 1..(Len(client.pending) - 1) |->
        IF j < i THEN client.pending[j] ELSE client.pending[j + 1]]

\* a delayed callback runs: _closeModal(), then onSuccess and resolve, or
\* onFailure and reject (a settled promise ignores a second settlement)
DelayedFire(i) ==
    /\ i \in 1..Len(client.pending)
    /\ client' =
          IF client.pending[i] = "success"
          THEN [client EXCEPT
                  !.modal = FALSE, !.pending = PendingWithout(i),
                  !.successCalls = @ + 1,
                  !.promise = IF @ = "pending" THEN "resolved" ELSE @,
                  !.lastEvent = [kind |-> "other"]]
          ELSE [client EXCEPT
                  !.modal = FALSE, !.pending = PendingWithout(i),
                  !.failureCalls = @ + 1,
                  !.failureReasons = @ \cup {client.pending[i]},
                  !.promise = IF @ = "pending" THEN "rejected" ELSE @,
                  !.lastEvent = [kind |-> "other"]]
    /\ UNCHANGED nonClientVars

\* time passes
ClientTick(d) ==
    /\ client.called
    /\ client.ticks < MaxClientTicks
    /\ client' = [client EXCEPT !.clock = @ + d, !.ticks = @ + 1]
    /\ UNCHANGED nonClientVars

ClientNext ==
    \/ ClientVerify
    \/ MouseEnter
    \/ MouseLeave
    \/ \E dist \in {HitRadius - 1, HitRadius}, d \in {0, 1} : MouseMove(dist, d)
    \/ \E checksOk \in BOOLEAN : CheckTick(checksOk)
    \/ TimeoutFires
    \/ CloseClick
    \/ \E i \in 1..Len(client.pending) : DelayedFire(i)
    \/ \E d \in {1, ReactionFloor} : ClientTick(d)

ClientSpec == Init /\ [][ClientNext]_vars

\* the timers fire: a timer that stays set is eventually run
ClientLiveSpec ==
    /\ ClientSpec
    /\ WF_vars(TimeoutFires)
    /\ WF_vars(\E i \in 1..Len(client.pending) : DelayedFire(i))

-----------------------------------------------------------------------------
(* Signing harness: a signature is issued, then verifySignature is called  *)
(* with a signature string and a payload that are the issued ones or       *)
(* altered ones                                                            *)

SigningKeys == {SECRET_KEY, "another-key"}

SigningData ==
    [points : ServerPaths, recordId : {"anonymous", "r1"}, checksPassed : {6, 7}]

\* the issued payload and the payloads that differ from it in one field
PayloadArgs(payload) ==
    {payload,
     [payload EXCEPT !.movementHash = (@ + 1) % HashSpace],
     [payload EXCEPT !.recordId = "forged"],
     [payload EXCEPT !.timestamp = @ + 1],
     [payload EXCEPT !.checksPassed = @ - 1]}

\* the issued signature, digests that differ from it (in the first 16
\* characters, only beyond them, or as the digest of an altered payload),
\* and strings of other lengths: empty, the sessionId, one character
\* short, one too many
SuppliedSignatures(key, issuedSig) ==
    {DigestString(issuedSig.signature),
     DigestString([issuedSig.signature EXCEPT !.head = (@ + 1) % HeadSpace]),
     DigestString(Hmac(key, [issuedSig.payload EXCEPT !.timestamp = @ + HeadSpace]))}
    \cup {DigestString(Hmac(key, p)) : p \in PayloadArgs(issuedSig.payload)}
    \cup {SignatureString(issuedSig.signature, n) :
            n \in {0, 16, DigestLength - 1, DigestLength + 1}}

SignInit ==
    /\ phase = "off"
    /\ points = None
    /\ options = [targetHitsRequired |-> None, targetHits |-> None]
    /\ bezierLike = FALSE
    /\ result = None
    /\ ServerIdle
    /\ inflight = <<>>
    /\ client = ClientIdle
    /\ \E key \in SigningKeys, data \in SigningData, t \in 0..MaxDrift :
          \E a \in {generateSignature(key, data, t)} :
             \E signature \in SuppliedSignatures(key, a), payload \in PayloadArgs(a.payload) :
                sign = Some([key |-> key, issuedSig |-> a, signature |-> signature,
                             payload |-> payload, outcome |-> None])

VerifySignatureCall ==
    /\ sign # None
    /\ Get(sign).outcome = None
    /\ sign' = Some([Get(sign) EXCEPT !.outcome =
                        Some(verifySignature(Get(sign).key, Get(sign).signature,
                                             Get(sign).payload))])
    /\ UNCHANGED <<analysisVars, serverVars, inflight, client>>

SignNext == VerifySignatureCall

SignSpec == SignInit /\ [][SignNext]_vars

-----------------------------------------------------------------------------
(* Properties of analyzeMovement (checked under AnalysisSpec)              *)

SixChecksTrue(checks) ==
    /\ checks.speed /\ checks.curves /\ checks.jitter
    /\ checks.timing /\ checks.continuous /\ checks.notRobotic

TrueAmongSix(checks) ==
    (IF checks.speed THEN 1 ELSE 0) + (IF checks.curves THEN 1 ELSE 0)
    + (IF checks.jitter THEN 1 ELSE 0) + (IF checks.timing THEN 1 ELSE 0)
    + (IF checks.continuous THEN 1 ELSE 0) + (IF checks.notRobotic THEN 1 ELSE 0)

FalseAmongAiSensitive(checks) ==
    (IF checks.curves THEN 0 ELSE 1) + (IF checks.continuous THEN 0 ELSE 1)
    + (IF checks.notRobotic THEN 0 ELSE 1) + (IF checks.timing THEN 0 ELSE 1)

\* the hits and the requirement analyzeMovement compares
EffectiveHits == IF options.targetHits = None THEN 0 ELSE Get(options.targetHits)
EffectiveRequired ==
    IF options.targetHitsRequired \in {None, Some(0)} THEN 5
    ELSE Get(options.targetHitsRequired)

FewerThan15 == points = None \/ Len(Get(points)) < 15

\* C1: in every returned result, verified is true if and only if the six
\* primary checks of the result are all true and the target-tracking check
\* (targetHits against the requirement in force) passes.
C1_VerifiedIffAllPass ==
    Returned =>
        (Res.verified <=>
            (SixChecksTrue(Res.checks) /\ EffectiveHits >= EffectiveRequired))

C1_Witness ==
    /\ Returned
    /\ Res.verified
    /\ SixChecksTrue(Res.checks)

\* C2: in every returned result 0 <= checksPassed <= 7, verified implies
\* checksPassed = 7, and checksPassed = 7 implies aiDetected = false.
C2_ChecksPassedRange ==
    Returned =>
        /\ Res.checksPassed \in 0..7
        /\ Res.verified => Res.checksPassed = 7
        /\ Res.checksPassed = 7 => ~Res.aiDetected

C2_Witness ==
    /\ Returned
    /\ Res.checksPassed = 7
    /\ ~Res.aiDetected

\* C3: with fewer than 15 points (or no points at all), whatever targetHits
\* is, the call returns verified = false, checksPassed = 0 and
\* reason = 'insufficient_data'.
C3_InsufficientData ==
    (Returned /\ FewerThan15) =>
        /\ ~Res.verified
        /\ Res.checksPassed = 0
        /\ Res.reason = Some("insufficient_data")

C3_Witness ==
    /\ Returned
    /\ points # None
    /\ Len(Get(points)) = 14
    /\ options.targetHits = Some(6)
    /\ Res.reason = Some("insufficient_data")

\* C4: in the insufficient_data result every one of the six checks is false.
C4_InsufficientAllChecksFalse ==
    (Returned /\ FewerThan15) => TrueAmongSix(Res.checks) = 0

\* C5 (as claimed): in every returned result, the insufficient_data result
\* included, checksPassed is the number of true checks among the six plus 1
\* if the target-tracking check passes.
C5_ChecksPassedCountsAll ==
    Returned =>
        Res.checksPassed =
            TrueAmongSix(Res.checks)
            + (IF EffectiveHits >= EffectiveRequired THEN 1 ELSE 0)

\* C5 (amended): for at least 15 points checksPassed is the number of true
\* checks among the six plus 1 if the target-tracking check passes; the
\* insufficient_data result carries checksPassed = 0.
C5_ChecksPassedCounts ==
    Returned =>
        IF FewerThan15 THEN Res.checksPassed = 0
        ELSE Res.checksPassed =
                TrueAmongSix(Res.checks)
                + (IF EffectiveHits >= EffectiveRequired THEN 1 ELSE 0)

C5_Witness ==
    /\ Returned
    /\ ~FewerThan15
    /\ EffectiveHits >= EffectiveRequired
    /\ TrueAmongSix(Res.checks) = 3
    /\ Res.checksPassed = 4

\* C6 (as claimed): in every returned result, the insufficient_data result
\* included, aiDetected is true if and only if at least 2 of curves,
\* continuous, notRobotic and timing are false.
C6_AiDetectedAll ==
    Returned => (Res.aiDetected <=> FalseAmongAiSensitive(Res.checks) >= 2)

\* C6 (amended): for at least 15 points aiDetected is true if and only if at
\* least 2 of curves, continuous, notRobotic and timing are false; the
\* insufficient_data result carries aiDetected = false.
C6_AiDetected ==
    Returned =>
        IF FewerThan15 THEN ~Res.aiDetected
        ELSE (Res.aiDetected <=> FalseAmongAiSensitive(Res.checks) >= 2)

C6_Witness ==
    /\ Returned
    /\ ~FewerThan15
    /\ Res.aiDetected
    /\ FalseAmongAiSensitive(Res.checks) = 2
    /\ Res.checks.speed /\ Res.checks.jitter

\* C7: for every configured targetHitsRequired (0 included) and supplied
\* targetHits, the target-tracking check passes (it contributes 1 to
\* checksPassed) if and only if targetHits >= targetHitsRequired.
C7_TargetCheckConfigured ==
    (Returned /\ ~FewerThan15
        /\ options.targetHitsRequired # None /\ options.targetHits # None) =>
        (Res.checksPassed - TrueAmongSix(Res.checks) = 1
            <=> Get(options.targetHits) >= Get(options.targetHitsRequired))

-----------------------------------------------------------------------------
(* Properties of the session registry (checked under Spec)                 *)

\* the step answers a POST /api/verify-signature that carries both fields
SignatureLookup ==
    /\ nreq' = nreq + 1
    /\ req'.kind = "verify-signature"
    /\ req'.sessionId # None
    /\ req'.signature # None

\* the entries ever stored for the session the lookup names
IssuedAs(sessionId, signature) ==
    {e \in issued : e.key = sessionId /\ e.signature = signature}

\* C8: when the last answer is a verified POST /api/verify with sessionId s,
\* signature g and issuance timestamp ts, for a request carrying recordId r,
\* and the next request is POST /api/verify-signature {s, g} read no later
\* than ts + TTL, the answer is valid = true with recordId r and timestamp ts.
C8_ImmediateLookupValid ==
    [][(/\ resp.kind = "verify"
        /\ resp.status = 200
        /\ resp.verified
        /\ SignatureLookup
        /\ req'.sessionId = Some(resp.sessionId)
        /\ req'.signature = Some(resp.signature)
        /\ now' <= resp.timestamp + TTL)
       => (/\ resp'.status = 200
           /\ resp'.valid
           /\ resp'.recordId = Val(req.recordId)
           /\ resp'.timestamp = Val(resp.timestamp))]_vars

C8_Witness ==
    /\ nreq = 2
    /\ Cardinality(issued) = 1
    /\ nticks > 0
    /\ req.kind = "verify-signature"
    /\ resp.status = 200
    /\ resp.valid
    /\ resp.recordId = Val(Some("r1"))
    /\ \E e \in issued : resp.timestamp = Val(e.timestamp)

\* C9 (as claimed): once more than the TTL has passed since a session was
\* issued (the clock is past the expiresAt of every issuance of the
\* signature), POST /api/verify-signature with its sessionId and signature
\* answers valid = false with reason 'session_expired', whatever requests
\* were served in between (no other session being stored under its id).
C9_SessionExpired ==
    [][(/\ SignatureLookup
        /\ IssuedAs(Get(req'.sessionId), Get(req'.signature)) # {}
        /\ \A e \in IssuedAs(Get(req'.sessionId), Get(req'.signature)) :
              e.expiresAt < now'
        /\ \A i \in 1..Len(verifiedSessions) :
              verifiedSessions[i].key = Get(req'.sessionId)
                 => verifiedSessions[i].signature = Get(req'.signature))
       => (/\ resp'.status = 200
           /\ ~resp'.valid
           /\ resp'.reason = Some("session_expired"))]_vars

\* C9 (amended): once the clock is past the stored expiresAt of every
\* issuance of a signature, POST /api/verify-signature with its sessionId
\* and that signature never answers valid = true: the reason is
\* 'session_expired', and the entry is removed, when the session's entry is
\* still stored, and 'session_not_found' when nothing is stored under the id.
C9_ExpiredNeverValid ==
    [][(/\ SignatureLookup
        /\ IssuedAs(Get(req'.sessionId), Get(req'.signature)) # {}
        /\ \A e \in IssuedAs(Get(req'.sessionId), Get(req'.signature)) :
              e.expiresAt < now')
       => (/\ resp'.status = 200
           /\ ~resp'.valid
           /\ (/\ MapHas(verifiedSessions, Get(req'.sessionId))
               /\ MapGet(verifiedSessions, Get(req'.sessionId)).signature
                     = Get(req'.signature))
              => (/\ resp'.reason = Some("session_expired")
                  /\ ~MapHas(verifiedSessions', Get(req'.sessionId)))
           /\ ~MapHas(verifiedSessions, Get(req'.sessionId))
              => resp'.reason = Some("session_not_found"))]_vars

C9_Witness ==
    /\ req.kind = "verify-signature"
    /\ resp.status = 200
    /\ ~resp.valid
    /\ resp.reason = Some("session_expired")
    /\ req.sessionId # None /\ req.signature # None
    /\ IssuedAs(Get(req.sessionId), Get(req.signature)) # {}
    /\ \A e \in IssuedAs(Get(req.sessionId), Get(req.signature)) : e.expiresAt < now
    /\ ~MapHas(verifiedSessions, Get(req.sessionId))

\* C10: every verified analysis creates one entry of its own (a new
\* sessionId enters the registry), and a stored entry is never changed by a
\* later request: it stays as it is or is deleted once expired.
C10_EntriesNeverChanged ==
    [][/\ \A i \in 1..Len(verifiedSessions) :
             IF MapHas(verifiedSessions', verifiedSessions[i].key)
             THEN MapGet(verifiedSessions', verifiedSessions[i].key)
                     = verifiedSessions[i]
             ELSE verifiedSessions[i].expiresAt < now'
       /\ (/\ nreq' = nreq + 1
           /\ req'.kind = "verify"
           /\ resp'.status = 200
           /\ resp'.verified)
          => (/\ ~MapHas(verifiedSessions, resp'.sessionId)
              /\ MapHas(verifiedSessions', resp'.sessionId))]_vars

-----------------------------------------------------------------------------
(* Properties of analyzeMovement on the two scenarios (checked under       *)
(* AnalysisSpec)                                                           *)

\* C19: for 20 identical samples analyzeMovement returns (it does not
\* raise), divides by zero nowhere, and returns verified = false.
C19_IdenticalSamples ==
    (Returned /\ points = Some(IdenticalSamples))
        => (ZeroDivisors(IdenticalSamples) = {} /\ ~Res.verified)

\* C20: for 50 points evenly spaced on a straight line, 16 ms apart, at
\* least half of the evaluated straightness windows are flagged too
\* straight, and the result has checks.notRobotic = false, verified = false
\* and aiDetected = true.
C20_StraightLine ==
    \A p \in StraightLinePaths :
       (Returned /\ points = Some(p))
          => (/\ 2 * Cardinality({s \in EvaluatedSegments(p) : TooStraight(p, s)})
                    >= Cardinality(EvaluatedSegments(p))
              /\ ~Res.checks.notRobotic
              /\ ~Res.verified
              /\ Res.aiDetected)

\* a straight line whose three windows are all evaluated, analysed with
\* enough target hits and the anti-Bezier signals below their threshold
C20_Witness ==
    /\ Returned
    /\ \E p \in StraightLinePaths :
          points = Some(p) /\ Cardinality(EvaluatedSegments(p)) = 3
    /\ ~bezierLike
    /\ options.targetHits = Some(6)
    /\ ~Res.checks.notRobotic
    /\ Res.aiDetected

\* the analysed sequence, when it has at least 15 samples
Analysed == Returned /\ points # None /\ Len(Get(points)) >= 15

\* the number of steps of the analysed sequence whose gap exceeds ms
StepsOver(ms) ==
    Cardinality({i \in 2..Len(Get(points)) :
                    Get(points)[i].t - Get(points)[i - 1].t > ms})

\* C23: for every sequence of at least 15 samples, checks.timing is true if
\* and only if the span exceeds 300 ms, the steps with gap > 50 ms are
\* fewer than 0.3 of the steps, and those with gap > 150 ms fewer than 0.1
\* of the steps (the steps being the gaps between consecutive samples).
C23_TimingPerStep ==
    Analysed =>
        (Res.checks.timing <=>
            /\ Get(points)[Len(Get(points))].t - Get(points)[1].t > 300
            /\ 10 * StepsOver(50) < 3 * (Len(Get(points)) - 1)
            /\ 10 * StepsOver(150) < Len(Get(points)) - 1)

\* at least half of the evaluated windows of the analysed sequence are too
\* straight
HalfTooStraight ==
    LET evaluated == EvaluatedSegments(Get(points))
    IN  /\ evaluated # {}
        /\ 2 * Cardinality({s \in evaluated : TooStraight(Get(points), s)})
              >= Cardinality(evaluated)

\* the coefficient of variation of the gaps of the analysed sequence is
\* below 0.12: with m gaps of sum g and sum of squares q, the variance is
\* (m q - g g) / (m m), the mean g / m, the coefficient is 0 when the
\* variance is 0, and 0.12 * 0.12 = 9 / 625
VariationBelow12 ==
    LET m == Len(Get(points)) - 1
        g == Get(points)[m + 1].t - Get(points)[1].t
        q == SeqSum([i \in 1..m |->
                      (Get(points)[i + 1].t - Get(points)[i].t)
                      * (Get(points)[i + 1].t - Get(points)[i].t)])
    IN  \/ m * q = g * g
        \/ g < 0
        \/ g > 0 /\ 625 * (m * q - g * g) < 9 * g * g

WindowsInside ==
    {s \in 0..(Len(Get(points)) - 20) : s % 10 = 0}

\* C25: every window of 20 consecutive samples starting at index 0, 10,
\* 20, ... that lies entirely inside the path and has endpoint distance
\* >= 10 px is evaluated, and the straightness sub-test fails exactly when
\* at least half of the evaluated windows are too straight.
C25_StraightnessWindows ==
    Analysed =>
        /\ EvaluatedSegments(Get(points))
              = {s \in WindowsInside : LineLenSq(Get(points), s) >= 100}
        /\ StraightRatioLow(Get(points)) <=> ~HalfTooStraight

\* C21: for every point sequence, the six checks computed by the server's
\* analyzeMovement equal the six computed by the browser's
\* _analyzeMovement.
C21_SameChecks ==
    \A p \in Paths :
        (Returned /\ points = Some(p)) =>
            Res.checks = ClientAnalyzeMovement(p)

-----------------------------------------------------------------------------
(* Properties of the server (checked under Spec)                           *)

\* a POST /api/verify is served and answers verified = true
Issuance ==
    /\ nreq' = nreq + 1
    /\ resp'.kind = "verify"
    /\ resp'.status = 200
    /\ resp'.verified

C14_SessionNotFound ==
    [][(SignatureLookup /\ ~MapHas(verifiedSessions, Get(req'.sessionId)))
       => (/\ resp'.status = 200
           /\ ~resp'.valid
           /\ resp'.reason = Some("session_not_found")
           /\ verifiedSessions' = verifiedSessions)]_vars

\* an unknown id was looked up while other sessions were stored
C14_Witness ==
    /\ req.kind = "verify-signature"
    /\ resp.status = 200
    /\ resp.reason = Some("session_not_found")
    /\ Len(verifiedSessions) > 0
    /\ ~MapHas(verifiedSessions, Get(req.sessionId))

\* C15: for a stored session that has not expired, POST
\* /api/verify-signature answers valid = true exactly when the supplied
\* signature equals the stored one; on a mismatch recordId and timestamp are
\* null; in both cases the registry, and with it the session, is unchanged.
C15_StoredSessionLookup ==
    [][(/\ SignatureLookup
        /\ MapHas(verifiedSessions, Get(req'.sessionId))
        /\ ~(MapGet(verifiedSessions, Get(req'.sessionId)).expiresAt < now'))
       => (/\ resp'.status = 200
           /\ resp'.reason = None
           /\ resp'.valid
                 <=> (MapGet(verifiedSessions, Get(req'.sessionId)).signature
                         = Get(req'.signature))
           /\ ~resp'.valid
                 => (resp'.recordId = Null /\ resp'.timestamp = Null)
           /\ verifiedSessions' = verifiedSessions)]_vars

\* a stored, unexpired session was looked up with another signature and is
\* still stored
C15_Witness ==
    /\ req.kind = "verify-signature"
    /\ resp.status = 200
    /\ resp.reason = None
    /\ ~resp.valid
    /\ resp.recordId = Null
    /\ MapHas(verifiedSessions, Get(req.sessionId))
    /\ MapGet(verifiedSessions, Get(req.sessionId)).signature # Get(req.signature)
    /\ ~(MapGet(verifiedSessions, Get(req.sessionId)).expiresAt < now)

\* the request just served carried malformed input
MalformedRequest ==
    /\ nreq' = nreq + 1
    /\ \/ req'.kind = "verify" /\ req'.pointsKind \in {"missing", "other"}
       \/ /\ req'.kind = "verify-signature"
          /\ (req'.sessionId = None \/ req'.signature = None)

\* C16: a request with malformed input (POST /api/verify without a points
\* array, POST /api/verify-signature without sessionId or signature) is
\* answered with status 400 and an error message only: no analysis result,
\* no signature, and the registry is unchanged.
C16_MalformedRejected ==
    [][MalformedRequest
       => (/\ resp'.status = 400
           /\ DOMAIN resp' = {"kind", "status", "error"}
           /\ verifiedSessions' = verifiedSessions
           /\ issued' = issued)]_vars

\* a non-array points value was posted while a session was stored
C16_Witness ==
    /\ req.kind = "verify"
    /\ req.pointsKind = "other"
    /\ resp.status = 400
    /\ Len(verifiedSessions) > 0

\* C17: when the analysis raises an exception inside POST /api/verify (an
\* array of at least 15 elements holding a null), the response is status 500
\* with only the message 'Internal server error', and no session is added
\* to or removed from the registry.
C17_InternalError ==
    [][(/\ nreq' = nreq + 1
        /\ req'.kind = "verify"
        /\ req'.pointsKind = "arrayWithNull"
        /\ ~(req'.pointCount < MinPoints))
       => (/\ resp'.status = 500
           /\ DOMAIN resp' = {"kind", "status", "error"}
           /\ resp'.error = "Internal server error"
           /\ verifiedSessions' = verifiedSessions
           /\ issued' = issued)]_vars

\* the exception was caught while a session was stored
C17_Witness ==
    /\ req.kind = "verify"
    /\ req.pointsKind = "arrayWithNull"
    /\ resp.status = 500
    /\ Len(verifiedSessions) > 0

\* C26: POST /api/verify-signature never answers valid = true for a
\* session whose expiresAt is earlier than the current time (the clock
\* reading of the lookup), whatever requests preceded it: a lookup that
\* answers valid = true names a stored session that has not expired, and a
\* lookup of a stored, expired session answers valid = false and evicts it.
C26_TtlEnforcedOnLookup ==
    [][SignatureLookup
       => /\ (resp'.status = 200 /\ resp'.valid)
                => (/\ MapHas(verifiedSessions, Get(req'.sessionId))
                    /\ ~(MapGet(verifiedSessions, Get(req'.sessionId)).expiresAt < now'))
          /\ (/\ MapHas(verifiedSessions, Get(req'.sessionId))
              /\ MapGet(verifiedSessions, Get(req'.sessionId)).expiresAt < now')
                => (/\ resp'.status = 200
                    /\ ~resp'.valid
                    /\ ~MapHas(verifiedSessions', Get(req'.sessionId)))]_vars

\* the only session ever issued was looked up with its own signature after
\* its expiry, no sweep having run since it was stored, and was refused
C26_Witness ==
    /\ nreq = 2
    /\ Cardinality(issued) = 1
    /\ req.kind = "verify-signature"
    /\ resp.status = 200
    /\ ~resp.valid
    /\ Len(verifiedSessions) = 0
    /\ \E e \in issued :
          /\ req.sessionId = Some(e.key)
          /\ req.signature = Some(e.signature)
          /\ e.expiresAt < now

\* C27: the registry gains an entry only through a POST /api/verify whose
\* analysis returned verified = true (all six checks true and the target
\* check passed): whenever the registry holds an entry it did not hold
\* before, the request just served is such an issuance and the entry is
\* the one stored under the sessionId it answers.
C27_EntriesOnlyByIssuance ==
    [][(\E i \in 1..Len(verifiedSessions') :
           \A j \in 1..Len(verifiedSessions) :
              verifiedSessions[j] # verifiedSessions'[i])
       => (/\ Issuance
           /\ req'.pointsKind = "array"
           /\ SixChecksTrue(resp'.checks)
           /\ resp'.checksPassed = TotalChecks
           /\ \A i \in 1..Len(verifiedSessions') :
                 (\A j \in 1..Len(verifiedSessions) :
                     verifiedSessions[j] # verifiedSessions'[i])
                 => (/\ verifiedSessions'[i].key = resp'.sessionId
                     /\ verifiedSessions'[i].signature = resp'.signature))]_vars

\* after a rejected analysis, a 400, a 500, a lookup and a health request
\* have all been possible, the registry holds exactly the issued session
C27_Witness ==
    /\ nreq = MaxReq
    /\ Cardinality(issued) = 1
    /\ Len(verifiedSessions) = 1
    /\ resp.kind = "verify"
    /\ resp.status = 500
    /\ \E e \in issued : verifiedSessions[1] = e

\* C28: a session that was issued and whose TTL has not elapsed stays
\* verifiable: POST /api/verify-signature with its sessionId and signature
\* answers valid = true, whatever was issued in between.
C28_StaysVerifiable ==
    [][(/\ SignatureLookup
        /\ \E e \in IssuedAs(Get(req'.sessionId), Get(req'.signature)) :
              ~(e.expiresAt < now'))
       => (resp'.status = 200 /\ resp'.valid)]_vars

-----------------------------------------------------------------------------
(* Properties of the browser client (checked under ClientSpec)             *)

\* a step that counts a target hit
HitCounted == client'.targetHits # client.targetHits

\* C22: a target hit is counted only on a captured mousemove sample whose
\* distance to the target centre is below the hit radius and at which more
\* than the reaction floor has elapsed since the target last moved; the
\* counted hit moves the target, and any two counted hits are more than the
\* reaction floor apart.
C22_HitCounting ==
    /\ [][HitCounted =>
            /\ client'.targetHits = client.targetHits + 1
            /\ client.modal /\ client.isCapturing
            /\ client'.samples = client.samples + 1
                  \/ client.samples = MinPoints
            /\ client'.lastEvent.kind = "mousemove"
            /\ client'.lastEvent.dist < HitRadius
            /\ client.targetMoveTime > 0
            /\ client'.clock - client.targetMoveTime > ReactionFloor
            /\ client'.targetMoveTime = client'.clock]_vars
    /\ [](\A i, j \in 1..Len(client.hitTimes) :
            i < j => client.hitTimes[j] - client.hitTimes[i] > ReactionFloor)

\* two hits have been counted
C22_Witness ==
    /\ client.targetHits = 2
    /\ Len(client.hitTimes) = 2
    /\ client.lastEvent.kind = "mousemove"

\* C29: for a verify() / verifyAsync() call, onSuccess and onFailure are
\* never both invoked and neither is invoked twice, under every
\* interleaving of the check tick, the timeout timer, close-button clicks
\* and the delayed close timers.
C29_OneOutcome ==
    /\ client.successCalls <= 1
    /\ client.failureCalls <= 1
    /\ ~(client.successCalls > 0 /\ client.failureCalls > 0)

\* a delayed callback with this outcome is scheduled
Scheduled(outcome) ==
    \E i \in 1..Len(client.pending) : client.pending[i] = outcome

\* C30: after verify() is called, provided the timers fire, a terminal
\* callback is eventually invoked; unless a check tick succeeds or the
\* close button is clicked first, the timeout fires and onFailure is
\* invoked with reason 'timeout'; a click on the close button leads to
\* onFailure with reason 'cancelled'.
C30_TerminalCallback ==
    /\ client.called ~> (client.successCalls + client.failureCalls > 0)
    /\ client.called ~> \/ client.successCalls > 0
                        \/ client.clicks > 0
                        \/ "timeout" \in client.failureReasons
    /\ Scheduled("timeout") ~> ("timeout" \in client.failureReasons)
    /\ (client.clicks > 0) ~> ("cancelled" \in client.failureReasons)

\* the timeout has fired with no click and no success, and onFailure was
\* invoked with reason 'timeout'
C30_Witness ==
    /\ client.failureReasons = {"timeout"}
    /\ client.failureCalls = 1
    /\ client.clicks = 0
    /\ client.successCalls = 0

-----------------------------------------------------------------------------
(* Properties of the event loop (checked under LoopSpec)                   *)

\* C18: the registry accesses of one /api/verify or /api/verify-signature
\* call are never interleaved with those of another: at most one call is
\* between its start and its return; a lookup that has read a session
\* still finds that very session stored when it tests and evicts it; and a
\* sweep runs over a registry that still holds the entry its own call set.
C18_MutuallyExclusive ==
    /\ Len(inflight) <= 1
    /\ \A k \in 1..Len(inflight) :
          /\ inflight[k].pc = "expiry"
                => (/\ MapHas(verifiedSessions, inflight[k].sessionId)
                    /\ MapGet(verifiedSessions, inflight[k].sessionId)
                          = Get(inflight[k].session))
          /\ inflight[k].pc = "sweep"
                => (/\ MapHas(verifiedSessions, inflight[k].sessionId)
                    /\ MapGet(verifiedSessions, inflight[k].sessionId).signature
                          = Get(inflight[k].sigData).signature)

\* a sweep is under way in a registry of two sessions, one entry visited
C18_Witness ==
    /\ Len(inflight) = 1
    /\ inflight[1].pc = "sweep"
    /\ inflight[1].cursor = 2
    /\ Len(verifiedSessions) = 2
    /\ nreq = 3

-----------------------------------------------------------------------------
(* Properties of signing (checked under SignSpec)                          *)

Verified == sign # None /\ Get(sign).outcome # None
Outcome == Get(Get(sign).outcome)
IssuedString == DigestString(Get(sign).issuedSig.signature)

\* C11: for every supplied signature whose length differs from that of the
\* expected MAC, verifySignature returns false and does not throw.
C11_FailsClosed ==
    (Verified /\ Get(sign).signature.length # DigestLength) =>
        Outcome = ReturnedValue(FALSE)

\* C12: verifySignature returns true for the issued signature with the
\* issued payload, and false when the payload alone differs from the issued
\* one or the signature alone differs from it in some characters (a string
\* of the same length).
C12_RoundTrip ==
    Verified =>
        /\ (Get(sign).signature = IssuedString
               /\ Get(sign).payload = Get(sign).issuedSig.payload)
           => Outcome = ReturnedValue(TRUE)
        /\ (Get(sign).signature = IssuedString
               /\ Get(sign).payload # Get(sign).issuedSig.payload)
           => Outcome = ReturnedValue(FALSE)
        /\ (Get(sign).signature # IssuedString
               /\ Get(sign).signature.length = DigestLength
               /\ Get(sign).payload = Get(sign).issuedSig.payload)
           => Outcome = ReturnedValue(FALSE)

C12_Witness ==
    /\ Verified
    /\ Get(sign).signature # IssuedString
    /\ Get(sign).signature.length = DigestLength
    /\ Slice16(Get(sign).signature.text) = Slice16(IssuedString.text)
    /\ Get(sign).payload = Get(sign).issuedSig.payload
    /\ Outcome = ReturnedValue(FALSE)

====
